---- MODULE Spec2Model ----
(***************************************************************************)
(* ConstArray<T, N> (src/src/lib.rs): a fixed-capacity array of N          *)
(* MaybeUninit<T> slots plus a length, used as a bounded double-ended      *)
(* queue.  The model keeps the physical content of every slot (a value     *)
(* that was moved out stays behind as a stale bit pattern, a slot that was *)
(* never written is Uninit), the length, and what each call returned.      *)
(***************************************************************************)
EXTENDS Integers, Sequences, FiniteSets, TLC

\* Bounds of the model: the largest capacity N explored and the number of
\* distinct values of T.
MaxN == 3
NumVals == 3

Values == 1..NumVals

\* MaybeUninit::uninit(): a slot that was never written.
Uninit == 0

VARIABLES
  N,        \* the const generic N of this instance
  buf,      \* self.buf : [MaybeUninit<T>; N], indexed 0..N-1
  len,      \* self.len
  alive,    \* "live", "dropped" (Drop::drop ran) or "forgotten" (mem::forget)
  copyT,    \* TRUE: T is Copy (u32 of the doctests); FALSE: T is an owned type with a teardown
  own,      \* T not Copy: who owns each value: "caller", "container" or "gone"
  torn,     \* T not Copy: how many times each value's teardown has run
  ret,      \* the last call: [op, arg, tag, val]
  reads,    \* slots the last call treated as an initialized T: <<index, len at the access>>
  deque,    \* reference double-ended queue bounded at N, run over the same calls
  refRet,   \* what the reference queue returned for the last call
  new_arr,  \* the container built by clone(): [live, buf, len]
  phase,    \* position in a scenario: "free" (any call), or the scenario's step
  mode,     \* push-then-drain scenario: which end is pushed, "back" or "front"
  pushed,   \* push-then-drain scenario: the values pushed so far
  drained,  \* push-then-drain scenario: the values popped so far
  saved,    \* a scenario's snapshot of the container at its start: [slice, len, torn]
  released  \* Drop::drop in progress: the values torn down so far, in order

fifoVars == <<phase, mode, pushed, drained, saved, released>>
vars == <<N, buf, len, alive, copyT, own, torn, ret, reads, deque, refRet, new_arr,
          phase, mode, pushed, drained, saved, released>>

----------------------------------------------------------------------------
\* The outcome of one call on (buf, len): the new buf and len, the returned
\* variant and its payload, the slots read as T, and the values torn down.
R(b, l, tag, val, rd, dr) ==
  [buf |-> b, len |-> l, tag |-> tag, val |-> val, reads |-> rd, dropped |-> dr]

uninit(n) == [buf |-> [i \in 0..(n - 1) |-> Uninit], len |-> 0]

RECURSIVE new_loop(_, _, _)
new_loop(b, array, i) ==
  IF i < Len(array)
    THEN IF i \in DOMAIN b
           THEN new_loop([b EXCEPT ![i] = array[i + 1]], array, i + 1)
           ELSE [buf |-> b, tag |-> "Panic"]
    ELSE [buf |-> b, tag |-> "Ok"]

\* new with the length set to the capacity instead of W.
new_len_is_capacity(n, array) ==
  LET filled == new_loop(uninit(n).buf, array, 0)
  IN  [buf |-> filled.buf, len |-> n, tag |-> filled.tag]

\* buf[i] = ... is bounds-checked: with W > N the loop panics at i = N and
\* no container is returned.
new(n, array) ==
  LET filled == new_loop(uninit(n).buf, array, 0)
  IN  [buf |-> filled.buf,
       len |-> IF filled.tag = "Ok" THEN Len(array) ELSE 0,
       tag |-> filled.tag]

from_array(n, array) == new(n, array)

capacity == N

\* is_empty with the test of is_full.
is_empty_tests_capacity(l) == l = N

is_empty(l) == l = 0

is_full(l) == l = N

\* core::ptr::copy(ptr.add(src), ptr.add(dst), count): a memmove of slots.
copy(b, src, dst, count) ==
  [i \in DOMAIN b |->
     IF dst <= i /\ i < dst + count /\ (i - dst + src) \in DOMAIN b
       THEN b[i - dst + src]
       ELSE b[i]]

\* push_front without the memmove of the occupied slots.
push_front_no_shift(b, l, item) ==
  IF is_full(l)
    THEN R(b, l, "Err", <<item>>, {}, <<>>)
    ELSE R([b EXCEPT ![0] = item], l + 1, "Ok", <<>>, {}, <<>>)

\* push_front that moves the slots before it tests for a full array.
push_front_shift_first(b, l, item) ==
  LET moved == copy(b, 0, 1, l)
  IN  IF is_full(l)
        THEN R(moved, l, "Err", <<item>>, {}, <<>>)
        ELSE R([moved EXCEPT ![0] = item], l + 1, "Ok", <<>>, {}, <<>>)

push_front(b, l, item) ==
  IF is_full(l)
    THEN R(b, l, "Err", <<item>>, {}, <<>>)
    ELSE LET moved == copy(b, 0, 1, l)
         IN  R([moved EXCEPT ![0] = item], l + 1, "Ok", <<>>, {}, <<>>)

\* push_back without the is_full test.
push_back_unchecked(b, l, item) ==
  R([b EXCEPT ![l] = item], l + 1, "Ok", <<>>, {}, <<>>)

push_back(b, l, item) ==
  IF is_full(l)
    THEN R(b, l, "Err", <<item>>, {}, <<>>)
    ELSE R([b EXCEPT ![l] = item], l + 1, "Ok", <<>>, {}, <<>>)

\* pop_front without the memmove that closes the hole.
pop_front_no_shift(b, l) ==
  IF l = 0
    THEN R(b, l, "None", <<>>, {}, <<>>)
    ELSE R(b, l - 1, "Some", <<b[0]>>, {<<0, l>>}, <<>>)

pop_front(b, l) ==
  IF l = 0
    THEN R(b, l, "None", <<>>, {}, <<>>)
    ELSE R(copy(b, 1, 0, l - 1), l - 1, "Some", <<b[0]>>, {<<0, l>>}, <<>>)

\* pop_back without the 0 arm of the match: buf[0 - 1] on an empty array.
pop_back_no_empty_arm(b, l) ==
  IF l = 0
    THEN R(b, l, "Panic", <<>>, {}, <<>>)
    ELSE R(b, l - 1, "Some", <<b[l - 1]>>, {<<l - 1, l>>}, <<>>)

\* pop_back reading slot 0, as pop_front does.
pop_back_reads_front(b, l) ==
  IF l = 0
    THEN R(b, l, "None", <<>>, {}, <<>>)
    ELSE R(b, l - 1, "Some", <<b[0]>>, {<<0, l>>}, <<>>)

\* pop_back without self.len -= 1.
pop_back_keeps_len(b, l) ==
  IF l = 0
    THEN R(b, l, "None", <<>>, {}, <<>>)
    ELSE R(b, l, "Some", <<b[l - 1]>>, {<<l - 1, l>>}, <<>>)

pop_back(b, l) ==
  IF l = 0
    THEN R(b, l, "None", <<>>, {}, <<>>)
    ELSE R(b, l - 1, "Some", <<b[l - 1]>>, {<<l - 1, l>>}, <<>>)

as_slice(b, l) == [i \in 1..l |-> b[i - 1]]

\* as_mut_slice over the whole buffer: from_raw_parts_mut(.., N).
as_mut_slice_whole_buffer(b, l) == [i \in 1..N |-> b[i - 1]]

as_mut_slice(b, l) == [i \in 1..l |-> b[i - 1]]

\* arr.as_mut_slice()[i] = v, for i inside the view: the assignment tears the
\* old element down and stores v.
slice_write(b, l, i, v) ==
  R([b EXCEPT ![i] = v], l, "Unit", <<>>, {<<i, l>>}, <<as_mut_slice(b, l)[i + 1]>>)

\* get: the outcomes the build can produce.  self.buf[index] panics on the
\* bounds check when index >= N; assume_init_ref on a slot that was never
\* written yields an arbitrary T; on a stale slot it yields the stale value.
get(b, l, index) ==
  IF index <= l
    THEN IF index >= N
           THEN {R(b, l, "Panic", <<>>, {}, <<>>)}
           ELSE IF b[index] = Uninit
                  THEN {R(b, l, "Some", <<g>>, {<<index, l>>}, <<>>) : g \in Values}
                  ELSE {R(b, l, "Some", <<b[index]>>, {<<index, l>>}, <<>>)}
    ELSE {R(b, l, "None", <<>>, {}, <<>>)}

drop(b, l) ==
  R(b, 0, "Unit", <<>>, {<<i, l>> : i \in 0..(l - 1)}, [i \in 1..l |-> b[i - 1]])

\* The loop of Drop::drop iterating (0..len).rev().
drop_step_descending(b, l, i) ==
  R(b, l, "Unit", <<>>, {<<l - 1 - i, l>>}, <<b[l - 1 - i]>>)

\* One iteration of the loop of Drop::drop: assume_init_drop on buf[i].
drop_step(b, l, i) == R(b, l, "Unit", <<>>, {<<i, l>>}, <<b[i]>>)

\* After the loop of Drop::drop: self.len = 0.
drop_end(b, l) == R(b, 0, "Unit", <<>>, {}, <<>>)

\* into_raw_parts without mem::forget(self): Drop::drop runs on return.
into_raw_parts_no_forget(b, l) ==
  R(b, l, "Parts", <<>>, {}, [i \in 1..l |-> b[i - 1]])

into_raw_parts(b, l) == R(b, l, "Parts", <<>>, {}, <<>>)

\* from_raw_parts with len taken to be the capacity.
from_raw_parts_len_is_capacity(array, l) == R(array, N, "Ok", <<>>, {}, <<>>)

from_raw_parts(array, l) == R(array, l, "Ok", <<>>, {}, <<>>)

to_array(b, l) == R(b, l, "Array", <<>>, {}, <<>>)

\* clone: every element is fetched with new_arr.get(i), from the container
\* being built, and pushed onto it; self is used for its length only.
RECURSIVE clone_loop(_, _, _, _)
clone_loop(na, rd, i, l) ==
  IF i >= l
    THEN {[buf |-> na.buf, len |-> na.len, tag |-> "Ok", reads |-> rd]}
    ELSE UNION {
           IF g.tag = "Some"
             THEN LET p == push_back(na.buf, na.len, g.val[1])
                  IN  clone_loop([buf |-> p.buf, len |-> p.len], rd \cup g.reads, i + 1, l)
             ELSE {[buf |-> na.buf, len |-> na.len, tag |-> "Panic", reads |-> rd]}
           : g \in get(na.buf, na.len, i) }

clone(b, l) == clone_loop(uninit(N), {}, 0, l)

----------------------------------------------------------------------------
\* The reference: a double-ended queue bounded at N, as a sequence.
ref_push_front(d, x) ==
  IF Len(d) >= N THEN [d |-> d, tag |-> "Err", val |-> <<x>>]
                 ELSE [d |-> <<x>> \o d, tag |-> "Ok", val |-> <<>>]

ref_push_back(d, x) ==
  IF Len(d) >= N THEN [d |-> d, tag |-> "Err", val |-> <<x>>]
                 ELSE [d |-> Append(d, x), tag |-> "Ok", val |-> <<>>]

ref_pop_front(d) ==
  IF d = <<>> THEN [d |-> d, tag |-> "None", val |-> <<>>]
              ELSE [d |-> Tail(d), tag |-> "Some", val |-> <<Head(d)>>]

ref_pop_back(d) ==
  IF d = <<>> THEN [d |-> d, tag |-> "None", val |-> <<>>]
              ELSE [d |-> SubSeq(d, 1, Len(d) - 1), tag |-> "Some", val |-> <<d[Len(d)]>>]

NoRef == [tag |-> "-", val |-> <<>>]

----------------------------------------------------------------------------
\* Ownership of the values of an owned (non-Copy) T.
Range(s) == {s[i] : i \in DOMAIN s}

Count(t, s) == Cardinality({i \in DOMAIN s : s[i] = t})

\* The caller can pass a value it owns; a Copy value can always be passed.
CanGive(item) == copyT \/ own[item] = "caller"

Ownership(entered, left, dropped) ==
  /\ own' = IF copyT THEN own
            ELSE [t \in Values |->
                    IF t \in Range(dropped) THEN "gone"
                    ELSE IF t \in entered THEN "container"
                    ELSE IF t \in left THEN "caller"
                    ELSE own[t]]
  /\ torn' = IF copyT THEN torn
             ELSE [t \in Values |-> torn[t] + Count(t, dropped)]

Commit(r, op, arg) ==
  /\ buf' = r.buf
  /\ len' = r.len
  /\ ret' = [op |-> op, arg |-> arg, tag |-> r.tag, val |-> r.val]
  /\ reads' = r.reads

NoClone == [live |-> FALSE, buf |-> <<>>, len |-> 0]

\* What a scenario remembers of the container it starts from.
Snapshot == [slice |-> as_slice(buf, len), len |-> len, torn |-> torn]

NoSnapshot == [slice |-> <<>>, len |-> 0, torn |-> <<>>]

----------------------------------------------------------------------------
\* The arrays a caller can pass to new(): at most n values; values of an
\* owned T are distinct objects.
Arrays(n, c) ==
  {a \in UNION {[1..k -> Values] : k \in 0..n} :
     c \/ \A i, j \in DOMAIN a : a[i] = a[j] => i = j}

\* The state after construction by uninit(), new(array) with W <= N, or
\* from_array(array).
Construct(ctor, n, c, array) ==
  LET a == IF ctor = "uninit" THEN uninit(n)
           ELSE IF ctor = "new" THEN new(n, array)
           ELSE from_array(n, array)
  IN  /\ N = n
      /\ buf = a.buf
      /\ len = a.len
      /\ alive = "live"
      /\ copyT = c
      /\ own = [t \in Values |-> IF ~c /\ t \in Range(array) THEN "container" ELSE "caller"]
      /\ torn = [t \in Values |-> 0]
      /\ ret = [op |-> ctor, arg |-> array, tag |-> "Ok", val |-> <<>>]
      /\ reads = {}
      /\ deque = array
      /\ refRet = NoRef
      /\ new_arr = NoClone

Init ==
  /\ \E n \in 0..MaxN, c \in BOOLEAN, ctor \in {"uninit", "new", "from_array"} :
       \E array \in Arrays(n, c) :
         /\ ctor = "uninit" => array = <<>>
         /\ ctor = "from_array" => Len(array) = n
         /\ Construct(ctor, n, c, array)
  /\ phase = "free"
  /\ mode = "none"
  /\ pushed = <<>>
  /\ drained = <<>>
  /\ saved = NoSnapshot
  /\ released = <<>>

----------------------------------------------------------------------------
\* One action per call on the live container.
DoPushFront(item) ==
  /\ alive = "live"
  /\ CanGive(item)
  /\ LET r == push_front(buf, len, item)
         q == ref_push_front(deque, item)
     IN  /\ Commit(r, "push_front", <<item>>)
         /\ Ownership(IF r.tag = "Ok" THEN {item} ELSE {}, {}, r.dropped)
         /\ deque' = q.d
         /\ refRet' = [tag |-> q.tag, val |-> q.val]
  /\ UNCHANGED <<N, alive, copyT, new_arr>>

DoPushBack(item) ==
  /\ alive = "live"
  /\ CanGive(item)
  /\ LET r == push_back(buf, len, item)
         q == ref_push_back(deque, item)
     IN  /\ Commit(r, "push_back", <<item>>)
         /\ Ownership(IF r.tag = "Ok" THEN {item} ELSE {}, {}, r.dropped)
         /\ deque' = q.d
         /\ refRet' = [tag |-> q.tag, val |-> q.val]
  /\ UNCHANGED <<N, alive, copyT, new_arr>>

DoPopFront ==
  /\ alive = "live"
  /\ LET r == pop_front(buf, len)
         q == ref_pop_front(deque)
     IN  /\ Commit(r, "pop_front", <<>>)
         /\ Ownership({}, Range(r.val), r.dropped)
         /\ deque' = q.d
         /\ refRet' = [tag |-> q.tag, val |-> q.val]
  /\ UNCHANGED <<N, alive, copyT, new_arr>>

DoPopBack ==
  /\ alive = "live"
  /\ LET r == pop_back(buf, len)
         q == ref_pop_back(deque)
     IN  /\ Commit(r, "pop_back", <<>>)
         /\ Ownership({}, Range(r.val), r.dropped)
         /\ deque' = q.d
         /\ refRet' = [tag |-> q.tag, val |-> q.val]
  /\ UNCHANGED <<N, alive, copyT, new_arr>>

DoGet(index) ==
  /\ alive = "live"
  /\ \E r \in get(buf, len, index) : Commit(r, "get", <<index>>)
  /\ refRet' = NoRef
  /\ UNCHANGED <<N, alive, copyT, own, torn, deque, new_arr>>

DoAsSlice ==
  /\ alive = "live"
  /\ ret' = [op |-> "as_slice", arg |-> <<>>, tag |-> "Slice", val |-> as_slice(buf, len)]
  /\ reads' = {<<i - 1, len>> : i \in DOMAIN as_slice(buf, len)}
  /\ refRet' = NoRef
  /\ UNCHANGED <<N, buf, len, alive, copyT, own, torn, deque, new_arr>>

\* arr.as_mut_slice()[i] = v with i inside the view.
DoWrite(i, v) ==
  /\ alive = "live"
  /\ CanGive(v)
  /\ i + 1 \in DOMAIN as_mut_slice(buf, len)
  /\ LET r == slice_write(buf, len, i, v)
     IN  /\ Commit(r, "write", <<i, v>>)
         /\ Ownership({v}, {}, r.dropped)
         /\ deque' = [deque EXCEPT ![i + 1] = v]
  /\ refRet' = NoRef
  /\ UNCHANGED <<N, alive, copyT, new_arr>>

\* The container goes out of scope: Drop::drop runs.
DoDrop ==
  /\ alive = "live"
  /\ LET r == drop(buf, len)
     IN  /\ Commit(r, "drop", <<>>)
         /\ Ownership({}, {}, r.dropped)
  /\ alive' = "dropped"
  /\ refRet' = NoRef
  /\ UNCHANGED <<N, copyT, deque, new_arr>>

\* self is consumed and forgotten: the occupied values pass to the caller.
DoIntoRawParts ==
  /\ alive = "live"
  /\ LET r == into_raw_parts(buf, len)
     IN  /\ Commit(r, "into_raw_parts", <<>>)
         /\ Ownership({}, Range(as_slice(r.buf, r.len)), r.dropped)
  /\ alive' = "forgotten"
  /\ refRet' = NoRef
  /\ UNCHANGED <<N, copyT, deque, new_arr>>

DoToArray ==
  /\ alive = "live"
  /\ LET r == to_array(buf, len)
     IN  /\ Commit(r, "to_array", <<>>)
         /\ Ownership({}, Range(as_slice(r.buf, len)), r.dropped)
  /\ alive' = "forgotten"
  /\ refRet' = NoRef
  /\ UNCHANGED <<N, copyT, deque, new_arr>>

\* let c = arr.clone(); the clone is a second container, used and dropped
\* before the next call on arr.
DoClone ==
  /\ alive = "live"
  /\ ~new_arr.live
  /\ \E c \in clone(buf, len) :
       /\ new_arr' = IF c.tag = "Ok" THEN [live |-> TRUE, buf |-> c.buf, len |-> c.len]
                     ELSE NoClone
       /\ ret' = [op |-> "clone", arg |-> <<>>, tag |-> c.tag, val |-> <<>>]
       /\ reads' = c.reads
  /\ refRet' = NoRef
  /\ UNCHANGED <<N, buf, len, alive, copyT, own, torn, deque>>

\* c.as_mut_slice()[i] = v on the clone, v a duplicate the caller made.
DoCloneWrite(i, v) ==
  /\ new_arr.live
  /\ i + 1 \in DOMAIN as_mut_slice(new_arr.buf, new_arr.len)
  /\ LET r == slice_write(new_arr.buf, new_arr.len, i, v)
     IN  /\ new_arr' = [new_arr EXCEPT !.buf = r.buf, !.len = r.len]
         /\ ret' = [op |-> "clone_write", arg |-> <<i, v>>, tag |-> r.tag, val |-> r.val]
         /\ reads' = r.reads
  /\ refRet' = NoRef
  /\ UNCHANGED <<N, buf, len, alive, copyT, own, torn, deque>>

DoCloneDrop ==
  /\ new_arr.live
  /\ LET r == drop(new_arr.buf, new_arr.len)
     IN  /\ new_arr' = NoClone
         /\ ret' = [op |-> "clone_drop", arg |-> <<>>, tag |-> r.tag, val |-> r.val]
         /\ reads' = r.reads
  /\ refRet' = NoRef
  /\ UNCHANGED <<N, buf, len, alive, copyT, own, torn, deque>>

----------------------------------------------------------------------------
PushFront(item) == ~new_arr.live /\ DoPushFront(item) /\ UNCHANGED fifoVars
PushBack(item) == ~new_arr.live /\ DoPushBack(item) /\ UNCHANGED fifoVars
PopFront == ~new_arr.live /\ DoPopFront /\ UNCHANGED fifoVars
PopBack == ~new_arr.live /\ DoPopBack /\ UNCHANGED fifoVars
Get(index) == ~new_arr.live /\ DoGet(index) /\ UNCHANGED fifoVars
AsSlice == ~new_arr.live /\ DoAsSlice /\ UNCHANGED fifoVars
Write(i, v) == ~new_arr.live /\ DoWrite(i, v) /\ UNCHANGED fifoVars
Drop == ~new_arr.live /\ DoDrop /\ UNCHANGED fifoVars
IntoRawParts == ~new_arr.live /\ DoIntoRawParts /\ UNCHANGED fifoVars
ToArray == ~new_arr.live /\ DoToArray /\ UNCHANGED fifoVars
Clone == DoClone /\ UNCHANGED fifoVars
CloneWrite(i, v) == DoCloneWrite(i, v) /\ UNCHANGED fifoVars
CloneDrop == DoCloneDrop /\ UNCHANGED fifoVars

Next ==
  \/ \E item \in Values : PushFront(item)
  \/ \E item \in Values : PushBack(item)
  \/ PopFront
  \/ PopBack
  \/ \E index \in 0..(N + 1) : Get(index)
  \/ AsSlice
  \/ \E i \in 0..(N - 1), v \in Values : Write(i, v)
  \/ Drop
  \/ IntoRawParts
  \/ ToArray

Spec == Init /\ [][Next]_vars

\* The same calls, and clone(): the clone is a separate value that no call on
\* arr touches, so it is explored on its own between two calls on arr.
NextClone ==
  \/ Next
  \/ Clone
  \/ \E i \in 0..(N - 1), v \in Values : CloneWrite(i, v)
  \/ CloneDrop

SpecClone == Init /\ [][NextClone]_vars

----------------------------------------------------------------------------
\* The push-then-drain scenario: on an empty container, push at most N
\* values at one end, then call pop_front until it returns None.
InitFifo ==
  /\ \E n \in 0..MaxN, c \in BOOLEAN : Construct("uninit", n, c, <<>>)
  /\ phase = "push"
  /\ mode \in {"back", "front"}
  /\ pushed = <<>>
  /\ drained = <<>>
  /\ saved = NoSnapshot
  /\ released = <<>>

FifoPush(item) ==
  /\ phase = "push"
  /\ Len(pushed) < N
  /\ IF mode = "back" THEN DoPushBack(item) ELSE DoPushFront(item)
  /\ pushed' = Append(pushed, item)
  /\ UNCHANGED <<phase, mode, drained, saved, released>>

FifoDrain ==
  /\ phase \in {"push", "drain"}
  /\ DoPopFront
  /\ drained' = drained \o ret'.val
  /\ phase' = IF ret'.tag = "None" THEN "done" ELSE "drain"
  /\ UNCHANGED <<mode, pushed, saved, released>>

NextFifo ==
  \/ \E item \in Values : FifoPush(item)
  \/ FifoDrain

SpecFifo == InitFifo /\ [][NextFifo]_vars

----------------------------------------------------------------------------
\* A call of new(array) with an array of any length W, W > N included:
\* nothing in new or in its signature relates W to N.
InitNew ==
  /\ \E n \in 0..MaxN, c \in BOOLEAN :
       \E array \in Arrays(MaxN + 1, c) :
         /\ N = n
         /\ copyT = c
         /\ ret = [op |-> "call", arg |-> array, tag |-> "-", val |-> <<>>]
  /\ buf = uninit(N).buf
  /\ len = 0
  /\ alive = "none"
  /\ own = [t \in Values |-> "caller"]
  /\ torn = [t \in Values |-> 0]
  /\ reads = {}
  /\ deque = <<>>
  /\ refRet = NoRef
  /\ new_arr = NoClone
  /\ phase = "call"
  /\ mode = "none"
  /\ pushed = <<>>
  /\ drained = <<>>
  /\ saved = NoSnapshot
  /\ released = <<>>

\* new returns the container, or panics; the unwinding then drops array,
\* which was not yet forgotten.
NewCall ==
  /\ phase = "call"
  /\ LET a == new(N, ret.arg)
     IN  /\ buf' = IF a.tag = "Ok" THEN a.buf ELSE buf
         /\ len' = a.len
         /\ alive' = IF a.tag = "Ok" THEN "live" ELSE "panicked"
         /\ ret' = [op |-> "new", arg |-> ret.arg, tag |-> a.tag, val |-> <<>>]
         /\ deque' = IF a.tag = "Ok" THEN ret.arg ELSE <<>>
         /\ IF a.tag = "Ok"
              THEN Ownership(Range(ret.arg), {}, <<>>)
              ELSE Ownership({}, {}, ret.arg)
  /\ phase' = "returned"
  /\ UNCHANGED <<N, copyT, reads, refRet, new_arr, mode, pushed, drained, saved, released>>

NextNew == NewCall

SpecNew == InitNew /\ [][NextNew]_vars

----------------------------------------------------------------------------
\* Scenarios that start from any container pushes, pops and writes can
\* reach (phase "free") and then run one fixed sequence of calls.

\* unsafe from_raw_parts(buf, len) on the pair into_raw_parts returned; after
\* into_raw_parts the variables buf and len are that pair, held by the caller.
DoFromRawParts ==
  /\ alive = "forgotten"
  /\ ret.op = "into_raw_parts"
  /\ LET r == from_raw_parts(buf, len)
     IN  /\ Commit(r, "from_raw_parts", <<>>)
         /\ Ownership(Range(as_slice(r.buf, r.len)), {}, r.dropped)
  /\ alive' = "live"
  /\ refRet' = NoRef
  /\ UNCHANGED <<N, copyT, deque, new_arr>>

\* push at one end of a non-full container, then pop at the same end.
PairPush(item, end) ==
  /\ phase = "free"
  /\ ~is_full(len)
  /\ IF end = "back" THEN DoPushBack(item) ELSE DoPushFront(item)
  /\ phase' = "pushed"
  /\ mode' = end
  /\ pushed' = <<item>>
  /\ saved' = Snapshot
  /\ UNCHANGED <<drained, released>>

PairPop ==
  /\ phase = "pushed"
  /\ IF mode = "back" THEN DoPopBack ELSE DoPopFront
  /\ phase' = "popped"
  /\ UNCHANGED <<mode, pushed, drained, saved, released>>

\* into_raw_parts, then from_raw_parts on the pair it returned.
RawInto ==
  /\ phase = "free"
  /\ DoIntoRawParts
  /\ phase' = "parts"
  /\ saved' = Snapshot
  /\ UNCHANGED <<mode, pushed, drained, released>>

RawFrom ==
  /\ phase = "parts"
  /\ DoFromRawParts
  /\ phase' = "rebuilt"
  /\ UNCHANGED <<mode, pushed, drained, saved, released>>

\* Drop::drop, one loop iteration at a time: i is the number of values
\* released so far.
DropStep ==
  /\ phase \in {"free", "dropping"}
  /\ alive = "live"
  /\ Len(released) < len
  /\ LET r == drop_step(buf, len, Len(released))
     IN  /\ Commit(r, "drop_step", <<Len(released)>>)
         /\ Ownership({}, {}, r.dropped)
         /\ released' = released \o r.dropped
  /\ phase' = "dropping"
  /\ saved' = IF phase = "free" THEN Snapshot ELSE saved
  /\ refRet' = NoRef
  /\ UNCHANGED <<N, alive, copyT, deque, new_arr, mode, pushed, drained>>

DropEnd ==
  /\ phase \in {"free", "dropping"}
  /\ alive = "live"
  /\ Len(released) >= len
  /\ LET r == drop_end(buf, len)
     IN  /\ Commit(r, "drop", <<>>)
         /\ Ownership({}, {}, r.dropped)
  /\ alive' = "dropped"
  /\ phase' = "dropped"
  /\ saved' = IF phase = "free" THEN Snapshot ELSE saved
  /\ refRet' = NoRef
  /\ UNCHANGED <<N, copyT, deque, new_arr, mode, pushed, drained, released>>

NextScen ==
  \/ \E item \in Values : phase = "free" /\ PushFront(item)
  \/ \E item \in Values : phase = "free" /\ PushBack(item)
  \/ phase = "free" /\ PopFront
  \/ phase = "free" /\ PopBack
  \/ \E i \in 0..(N - 1), v \in Values : phase = "free" /\ Write(i, v)
  \/ \E item \in Values, end \in {"back", "front"} : PairPush(item, end)
  \/ PairPop
  \/ RawInto
  \/ RawFrom
  \/ DropStep
  \/ DropEnd

SpecScen == Init /\ [][NextScen]_vars

----------------------------------------------------------------------------
\* Properties.

Pushes == {"push_front", "push_back"}

Pops == {"pop_front", "pop_back"}

\* Every slot below len holds a written value.
Initialized(b, l) == \A i \in 0..(l - 1) : b[i] # Uninit

Reverse(s) == [i \in 1..Len(s) |-> s[Len(s) + 1 - i]]

\* C1: after every push_front, push_back, pop_front and pop_back, as_slice()
\* and the returned result (Ok / Err(item) / Some(v) / None) equal those of
\* the reference double-ended queue bounded at N run over the same calls.
C1_RefinesDeque ==
  alive = "live" =>
    /\ as_slice(buf, len) = deque
    /\ ret.op \in Pushes \cup Pops => ret.tag = refRet.tag /\ ret.val = refRet.val

\* A pop_front that moved two different values one slot to the left.
C1_Witness ==
  /\ ret.op = "pop_front"
  /\ ret.tag = "Some"
  /\ len = 2
  /\ deque[1] # deque[2]

\* C2: in every reachable state 0 <= len() <= capacity(), capacity() is the
\* number of slots N, and N never changes.
C2_LenWithinCapacity ==
  /\ [](0 <= len /\ len <= capacity /\ DOMAIN buf = 0..(capacity - 1))
  /\ [][N' = N]_vars

\* A full container of the largest capacity on which a push was rejected.
C2_Witness ==
  /\ N = MaxN
  /\ len = capacity
  /\ ret.op \in Pushes
  /\ ret.tag = "Err"

\* What one step may do to a push or pop (C3).
C3_Step ==
  /\ (ret'.op \in Pushes /\ len = N) =>
       /\ ret'.tag = "Err"
       /\ ret'.val = ret'.arg
       /\ len' = len
       /\ buf' = buf
  /\ ret'.op \in Pushes =>
       \/ ret'.tag = "Ok" /\ len' = len + 1 /\ Initialized(buf', len')
       \/ ret'.tag = "Err" /\ len' = len /\ buf' = buf
  /\ ret'.op \in Pops =>
       \/ ret'.tag = "Some" /\ len' = len - 1 /\ Initialized(buf', len')
       \/ ret'.tag = "None" /\ len' = len /\ buf' = buf

\* C3: on a full container push_front(item) and push_back(item) return
\* Err(item) with the passed value and leave len and every slot unchanged;
\* every push and pop either succeeds completely (len moves by one, every
\* slot below len is initialized) or changes nothing.
C3_FullPushRejected == [][C3_Step]_vars

\* A push_front rejected by a full container that holds at least two values.
C3_Witness ==
  /\ ret.op = "push_front"
  /\ ret.tag = "Err"
  /\ len = N
  /\ N >= 2

\* C4: get(index) returns the value at index exactly when index < len(), and
\* None for index = len() and for every index > len().
C4_GetInRangeOnly ==
  ret.op = "get" =>
    IF ret.arg[1] < len
      THEN ret.tag = "Some" /\ ret.val = <<buf[ret.arg[1]]>>
      ELSE ret.tag = "None"

\* C5: clone() yields a container of the same capacity and length whose
\* as_slice() equals the source's, element by element.
C5_CloneEqualsSource ==
  ret.op = "clone" =>
    /\ new_arr.live
    /\ DOMAIN new_arr.buf = DOMAIN buf
    /\ new_arr.len = len
    /\ as_slice(new_arr.buf, new_arr.len) = as_slice(buf, len)

\* C6: no call reads, references or drops as a T a slot at an index in
\* [len(), N): every slot a call treats as initialized lies below the
\* length at the time of the access.
C6_NoReadAtOrBeyondLen == \A a \in reads : a[1] < a[2]

\* The teardowns one step may run (C7).
C7_Step ==
  ~copyT =>
    /\ ret'.op = "drop" /\ alive = "live" =>
         \A t \in Values : torn'[t] = torn[t] + Count(t, as_slice(buf, len))
    /\ ret'.op \in {"into_raw_parts", "to_array"} => torn' = torn

\* C7: for an owned T, dropping the container tears down each value in
\* [0, len()) exactly once and no other value; into_raw_parts() and
\* to_array() tear nothing down; no value is ever torn down twice.
C7_TeardownOnce ==
  /\ [][C7_Step]_vars
  /\ [](\A t \in Values : torn[t] <= 1)

\* A dropped container of an owned T, with three values torn down once each.
C7_Witness ==
  /\ ~copyT
  /\ alive = "dropped"
  /\ ret.op = "drop"
  /\ Cardinality({t \in Values : torn[t] = 1}) >= 3

\* C8: for an owned T, the slots [0, len()) hold pairwise distinct values,
\* and a value returned by pop_front() or pop_back(), like every value the
\* caller owns, is not in [0, len()).
C8_DistinctOwnedSlots ==
  (~copyT /\ alive = "live") =>
    /\ \A i, j \in 0..(len - 1) : buf[i] = buf[j] => i = j
    /\ \A t \in Values : own[t] = "caller" => t \notin Range(as_slice(buf, len))
    /\ (ret.op \in Pops /\ ret.tag = "Some") =>
         /\ ret.val[1] \notin Range(as_slice(buf, len))
         /\ own[ret.val[1]] = "caller"

\* A pop_front on an owned T that left two values behind.
C8_Witness ==
  /\ ~copyT
  /\ ret.op = "pop_front"
  /\ ret.tag = "Some"
  /\ len = 2

\* C9: at most N values pushed with push_back onto an empty container drain
\* through pop_front in the order pushed, pushed with push_front in the
\* reverse order; the container is empty afterwards.
C9_FifoLifo ==
  phase = "done" =>
    /\ drained = IF mode = "back" THEN pushed ELSE Reverse(pushed)
    /\ len = 0
    /\ is_empty(len)
    /\ as_slice(buf, len) = <<>>

\* Three values, not all equal, pushed at the front and drained.
C9_Witness ==
  /\ phase = "done"
  /\ mode = "front"
  /\ Len(pushed) = 3
  /\ pushed[1] # pushed[3]

\* C10: new([x1..xk]) with k <= N yields len() = k, capacity() = N and
\* as_slice() = [x1..xk]; from_array is the case k = N and yields a full
\* container.
C10_NewRoundTrip ==
  ret.op \in {"new", "from_array"} =>
    /\ len = Len(ret.arg)
    /\ DOMAIN buf = 0..(capacity - 1)
    /\ as_slice(buf, len) = ret.arg
    /\ ret.op = "from_array" => is_full(len)

\* new() from two different values into a container of capacity three.
C10_Witness ==
  /\ ret.op = "new"
  /\ N = 3
  /\ Len(ret.arg) = 2
  /\ ret.arg[1] # ret.arg[2]
  /\ len = 2

\* C11: no execution of new() at run time ends in a panic or produces a
\* container with len() > N, whatever the length W of the array.
C11_NewNeverFailsAtRunTime ==
  (phase = "returned" /\ ret.op = "new") => (ret.tag # "Panic" /\ len <= N)

\* What a pop on an empty container may do (C12).
C12_Step ==
  (ret'.op \in Pops /\ alive = "live" /\ len = 0) =>
    /\ ret'.tag = "None"
    /\ ret'.val = <<>>
    /\ len' = 0
    /\ buf' = buf
    /\ alive' = "live"
    /\ own' = own
    /\ torn' = torn

\* C12: pop_front() and pop_back() on a container with len() == 0, fresh or
\* drained, return None (never a panic) and leave len at 0 and the state
\* unchanged.
C12_EmptyPopIsNone == [][C12_Step]_vars

\* pop_back answered None on a container that was filled and drained.
C12_Witness ==
  /\ ret.op = "pop_back"
  /\ ret.tag = "None"
  /\ len = 0
  /\ N >= 2
  /\ \A i \in DOMAIN buf : buf[i] # Uninit

\* What a write through as_mut_slice may do (C13).
C13_Step ==
  ret'.op = "write" =>
    /\ ret'.arg[1] < len
    /\ len' = len
    /\ N' = N
    /\ DOMAIN buf' = DOMAIN buf
    /\ buf'[ret'.arg[1]] = ret'.arg[2]
    /\ \A j \in DOMAIN buf \ {ret'.arg[1]} : buf'[j] = buf[j]

\* C13: the view of as_mut_slice() has exactly len() elements; a write
\* through it at i < len() replaces slot i only and leaves len(), capacity()
\* and every other slot unchanged.
C13_WriteInPlace ==
  /\ [](alive = "live" => Len(as_mut_slice(buf, len)) = len)
  /\ [][C13_Step]_vars

\* A write into slot 1 of a container that holds three values.
C13_Witness ==
  /\ ret.op = "write"
  /\ ret.arg[1] = 1
  /\ len = 3
  /\ buf[1] = ret.arg[2]
  /\ buf[0] # buf[1]

\* How a push or pop must answer, given the accessors before it (C15).
C15_Step ==
  /\ ret'.op \in Pushes => (is_full(len) <=> ret'.tag = "Err")
  /\ ret'.op \in Pops => (is_empty(len) <=> ret'.tag = "None")

\* C15: is_full() is true iff len() == N iff the next push returns Err;
\* is_empty() is true iff len() == 0 iff the next pop returns None;
\* as_slice() has exactly len() elements.
C15_AccessorsAgree ==
  /\ [](alive = "live" =>
          /\ is_full(len) <=> len = capacity
          /\ is_empty(len) <=> len = 0
          /\ Len(as_slice(buf, len)) = len)
  /\ [][C15_Step]_vars

\* push_back rejected by a container that is_full() and not is_empty().
C15_Witness ==
  /\ ret.op = "push_back"
  /\ ret.tag = "Err"
  /\ is_full(len)
  /\ ~is_empty(len)

\* C16: no safe call indexes the backing storage at a position >= N: none
\* panics on a bounds check, get(len()) on a full container and every call
\* with N == 0 included.
C16_NoBoundsCheckPanic == alive = "live" => ret.tag # "Panic"

\* C14: dropping a container releases the values of slots 0, 1, ..., len()-1
\* in ascending index order, sets len to 0 only after the last release, and
\* ends in a terminal state.
C14_DropInOrder ==
  /\ [](phase = "dropping" =>
          /\ len = saved.len
          /\ released = SubSeq(saved.slice, 1, Len(released)))
  /\ [](phase = "dropped" =>
          /\ len = 0
          /\ alive = "dropped"
          /\ released = saved.slice)
  /\ [][phase # "dropped"]_vars

\* The drop of a container of three owned values has finished.
C14_Witness ==
  /\ phase = "dropped"
  /\ ~copyT
  /\ Len(released) = 3
  /\ len = 0

\* C17: on a non-full container with contents s, push_back(x) then
\* pop_back() returns Some(x) and restores s and len(); likewise
\* push_front(x) then pop_front().
C17_PushPopInverse ==
  phase = "popped" =>
    /\ ret.tag = "Some"
    /\ ret.val = pushed
    /\ as_slice(buf, len) = saved.slice
    /\ len = saved.len

\* push_front then pop_front on a container that held two values.
C17_Witness ==
  /\ phase = "popped"
  /\ mode = "front"
  /\ ret.op = "pop_front"
  /\ len = 2
  /\ pushed[1] # buf[0]

\* C18: from_raw_parts on the (storage, len) pair of a.into_raw_parts()
\* yields a container with the len() and as_slice() of a, and no teardown
\* runs during the decomposition or the reconstruction.
C18_RawPartsRoundTrip ==
  /\ phase = "parts" => torn = saved.torn
  /\ phase = "rebuilt" =>
       /\ alive = "live"
       /\ len = saved.len
       /\ as_slice(buf, len) = saved.slice
       /\ torn = saved.torn

\* A container of owned values, two of three slots occupied, rebuilt from
\* its raw parts.
C18_Witness ==
  /\ phase = "rebuilt"
  /\ ret.op = "from_raw_parts"
  /\ ~copyT
  /\ N = 3
  /\ len = 2

====
